---- MODULE Spec2Model ----
(***************************************************************************)
(* Budget allocation engine of omkar-adtech (lib/mab-engine.ts, lib/redis, *)
(* routes/budget.ts): the arm records kept in Redis, updateArmReward, and  *)
(* the allocation cycle runMABAllocation / applyBudgetAllocations /        *)
(* runFullMABCycle.  Every `await` of the source is a step of its own, so  *)
(* the interleavings of concurrent requests are those Node's event loop    *)
(* allows.                                                                 *)
(*                                                                         *)
(* JavaScript numbers are modelled as exact rationals [n, d] (d > 0);      *)
(* Infinity is [n |-> 1, d |-> 0] and JSON null is [n |-> 0, d |-> 0].     *)
(* Floating-point rounding is not modelled.                                *)
(***************************************************************************)
EXTENDS Integers, Sequences, FiniteSets, TLC

----------------------------------------------------------------------------
(* Numbers *)

RECURSIVE GCD(_, _)
GCD(a, b) == IF b = 0 THEN a ELSE GCD(b, a % b)

Abs(x) == IF x < 0 THEN -x ELSE x

\* the number n/d in lowest terms
Q(n, d) == LET g == GCD(Abs(n), d) IN [n |-> n \div g, d |-> d \div g]

Zero == [n |-> 0, d |-> 1]
Infinity == [n |-> 1, d |-> 0]
JsonNull == [n |-> 0, d |-> 0]

isFinite(x) == x.d # 0

RInt(k) == [n |-> k, d |-> 1]
RAdd(x, y) == Q(x.n * y.d + y.n * x.d, x.d * y.d)
RSub(x, y) == Q(x.n * y.d - y.n * x.d, x.d * y.d)
RDivInt(x, k) == Q(x.n, x.d * k)
RLt(x, y) == x.n * y.d < y.n * x.d
RLe(x, y) == x.n * y.d <= y.n * x.d
RGt(x, y) == RLt(y, x)
RGe(x, y) == RLe(y, x)
RMax(x, y) == IF RLt(x, y) THEN y ELSE x

LCM(a, b) == (a \div GCD(a, b)) * b

----------------------------------------------------------------------------
(* Program constants (mab-engine.ts) *)

EXPLORATION_CONSTANT == 2
COLD_START_THRESHOLD == 30
CUSUM_THRESHOLD == 5
CUSUM_DRIFT_DELTA == Q(1, 2)
MIN_BUDGET_PAISA == 10000 * 100
\* saveArm's expiry, 7 * 24 * 60 * 60 seconds, counted in days
ARM_TTL_DAYS == 7

----------------------------------------------------------------------------
(* Bounds of the model *)

\* request slots that can run updateArmReward at the same time
NumUpdaters == 2
\* request slots that can run runFullMABCycle at the same time
NumCyclers == 2
\* calls of each kind started in one behaviour of the concurrent workload
MaxUpdates == 2
MaxCycles == 1
\* runFullMABCycle calls started in one behaviour of the two-cycle workload
MaxRacingCycles == 2
\* calls of each kind started in one behaviour of the sequential workload
MaxSeqUpdates == 2
MaxSeqCycles == 1
\* arms in an allocation of the allocation workload
MaxAllocArms == 3
\* calls of the series of rewards of 5.0, and of the series of rewards just
\* below the running average
MaxShiftCalls == 10
MaxStableCalls == 100
\* cycles of the workload in which store calls fail
MaxFailCycles == 2
\* the clock: the days that pass between two looks at it, and its last day
TickDays == 4
MaxDays == 8

\* pollMetrics invocations that can be in progress at once (timer callbacks)
NumPollers == 2
\* timer ticks modelled
MaxTicks == 3
\* processWhatsAppMessage invocations that can be in progress at once
NumHandlers == 2
\* sendWelcomeTemplate invocations that can be in progress at once
NumWelcomers == 1
\* WhatsApp messages and Meta lead webhooks modelled for one phone number
MaxMessages == 5
MaxLeads == 2
Pollers == 1..NumPollers
Handlers == 1..NumHandlers
Welcomers == 1..NumWelcomers

Updaters == 1..NumUpdaters
Cyclers == 1..NumCyclers

\* roasReward values sent to recordArmReward (z.number().min(0))
Rewards == {RInt(3), RInt(6)}
SeqRewards == {RInt(0), RInt(2), RInt(3), Q(11, 2), RInt(6)}
\* totalBudgetPaisa values sent to triggerMAB (z.number().int().positive())
Budgets == {3000000}
\* values a draw of thompsonSample can return, all in (0, 1)
ThompsonSamples == {Q(1, 4), Q(3, 4)}

\* The campaign table: one ACTIVE META campaign with two ad sets.
Campaigns == <<[id |-> "c1", platform |-> "META", externalId |-> "x1",
                adSets |-> <<"a1", "a2">>]>>

RECURSIVE ArmIdsFrom(_)
ArmIdsFrom(i) ==
  IF i > Len(Campaigns) THEN <<>>
  ELSE [j \in 1..Len(Campaigns[i].adSets) |->
          <<Campaigns[i].id, Campaigns[i].adSets[j]>>] \o ArmIdsFrom(i + 1)

\* the (campaignId, adSetId) pairs in the order runMABAllocation walks them
ArmList == ArmIdsFrom(1)
ArmKeys == {ArmList[i] : i \in 1..Len(ArmList)}

\* mabArmKey(campaignId, adSetId, 'combined'): one key per pair
mabArmKey(campaignId, adSetId) == <<campaignId, adSetId>>

----------------------------------------------------------------------------
VARIABLES
  store,      \* Redis: key -> arm record, defined on the keys that exist
  expireAt,   \* Redis: key -> day on which the key expires
  now,        \* the clock, in days
  upd,        \* per updater slot: the position and locals of updateArmReward
  cyc,        \* per cycler slot: the position and locals of runFullMABCycle
  agentLog,   \* prisma.agentLog rows written by updateArmReward
  budgetAllocation, \* prisma.budgetAllocation rows, keyed by <<campaignId, date>>
  platformBudget,   \* budget last set on the ad platform, per externalId
  hist,       \* history: what the calls made so far did
  poller,     \* metrics-poller.ts: isRunning and the pollMetrics invocations
  wa          \* whatsapp-fsm.ts: the lead, its conversation, the handlers

vars == <<store, expireAt, now, upd, cyc, agentLog, budgetAllocation,
          platformBudget, hist, poller, wa>>

\* the variables of the budget engine
mabVars == <<store, expireAt, now, upd, cyc, agentLog, budgetAllocation,
             platformBudget, hist>>

----------------------------------------------------------------------------
(* Arm records *)

\* NewArm with the Beta priors started at 0
NewArm_ZeroPriors(campaignId, adSetId) ==
  [campaignId |-> campaignId, adSetId |-> adSetId,
   pulls |-> 0, totalReward |-> Zero, avgReward |-> Zero,
   ucbScore |-> Infinity, alpha |-> 0, beta |-> 0,
   cusumPositive |-> Zero, cusumNegative |-> Zero,
   lastUpdated |-> now]

\* loadArm's "Initialize new arm" record
NewArm(campaignId, adSetId) ==
  [campaignId |-> campaignId, adSetId |-> adSetId,
   pulls |-> 0, totalReward |-> Zero, avgReward |-> Zero,
   ucbScore |-> Infinity, alpha |-> 1, beta |-> 1,
   cusumPositive |-> Zero, cusumNegative |-> Zero,
   lastUpdated |-> now]

\* JSON.stringify as @upstash/redis applies it to the value of redis.set:
\* non-finite numbers are written as null
Serialize(arm) ==
  [arm EXCEPT !.ucbScore = IF isFinite(@) THEN @ ELSE JsonNull]

loadArm(campaignId, adSetId) ==
  LET key == mabArmKey(campaignId, adSetId) IN
  IF key \in DOMAIN store THEN store[key] ELSE NewArm(campaignId, adSetId)

\* the store after saveArm(arm)
saveArm(arm) ==
  LET key == mabArmKey(arm.campaignId, arm.adSetId) IN
  [k \in DOMAIN store \cup {key} |-> IF k = key THEN Serialize(arm) ELSE store[k]]

\* the expiry times after saveArm(arm): redis.set(..., {ex: 7 days})
saveArmTtl(arm) ==
  LET key == mabArmKey(arm.campaignId, arm.adSetId) IN
  [k \in DOMAIN expireAt \cup {key} |->
     IF k = key THEN now + ARM_TTL_DAYS ELSE expireAt[k]]

\* an arm after 30 rewards of 2.0 and no cycle, as updateArmReward leaves it
WarmArm(key) ==
  [campaignId |-> key[1], adSetId |-> key[2],
   pulls |-> 30, totalReward |-> RInt(60), avgReward |-> RInt(2),
   ucbScore |-> JsonNull, alpha |-> 31, beta |-> 1,
   cusumPositive |-> Zero, cusumNegative |-> Zero,
   lastUpdated |-> 0]

----------------------------------------------------------------------------
(* CUSUM change-point detection *)

\* updateCUSUM with the drift allowance left out of the innovation
updateCUSUM_NoDrift(arm, newReward) ==
  LET innovation == RSub(newReward, arm.avgReward)
      newCusumPos == RMax(Zero, RAdd(arm.cusumPositive, innovation))
      newCusumNeg == RMax(Zero, RSub(RSub(arm.cusumNegative, innovation),
                                     CUSUM_DRIFT_DELTA))
      changeDetected == RGt(newCusumPos, RInt(CUSUM_THRESHOLD))
                        \/ RGt(newCusumNeg, RInt(CUSUM_THRESHOLD))
  IN [arm |-> [arm EXCEPT
                 !.cusumPositive = IF changeDetected THEN Zero ELSE newCusumPos,
                 !.cusumNegative = IF changeDetected THEN Zero ELSE newCusumNeg],
      changeDetected |-> changeDetected]

\* updateCUSUM with the threshold reached counted as crossed (>= for >)
updateCUSUM_InclusiveThreshold(arm, newReward) ==
  LET innovation == RSub(RSub(newReward, arm.avgReward), CUSUM_DRIFT_DELTA)
      newCusumPos == RMax(Zero, RAdd(arm.cusumPositive, innovation))
      newCusumNeg == RMax(Zero, RSub(RSub(arm.cusumNegative, innovation),
                                     CUSUM_DRIFT_DELTA))
      changeDetected == RGe(newCusumPos, RInt(CUSUM_THRESHOLD))
                        \/ RGe(newCusumNeg, RInt(CUSUM_THRESHOLD))
  IN [arm |-> [arm EXCEPT
                 !.cusumPositive = IF changeDetected THEN Zero ELSE newCusumPos,
                 !.cusumNegative = IF changeDetected THEN Zero ELSE newCusumNeg],
      changeDetected |-> changeDetected]

\* updateCUSUM that keeps the accumulators when it detects a change
updateCUSUM_NoReset(arm, newReward) ==
  LET innovation == RSub(RSub(newReward, arm.avgReward), CUSUM_DRIFT_DELTA)
      newCusumPos == RMax(Zero, RAdd(arm.cusumPositive, innovation))
      newCusumNeg == RMax(Zero, RSub(RSub(arm.cusumNegative, innovation),
                                     CUSUM_DRIFT_DELTA))
      changeDetected == RGt(newCusumPos, RInt(CUSUM_THRESHOLD))
                        \/ RGt(newCusumNeg, RInt(CUSUM_THRESHOLD))
  IN [arm |-> [arm EXCEPT !.cusumPositive = newCusumPos,
                          !.cusumNegative = newCusumNeg],
      changeDetected |-> changeDetected]

\* updateCUSUM without the Math.max(0, ...) of lines 149-150
updateCUSUM_NoClamp(arm, newReward) ==
  LET innovation == RSub(RSub(newReward, arm.avgReward), CUSUM_DRIFT_DELTA)
      newCusumPos == RAdd(arm.cusumPositive, innovation)
      newCusumNeg == RSub(RSub(arm.cusumNegative, innovation),
                          CUSUM_DRIFT_DELTA)
      changeDetected == RGt(newCusumPos, RInt(CUSUM_THRESHOLD))
                        \/ RGt(newCusumNeg, RInt(CUSUM_THRESHOLD))
  IN [arm |-> [arm EXCEPT
                 !.cusumPositive = IF changeDetected THEN Zero ELSE newCusumPos,
                 !.cusumNegative = IF changeDetected THEN Zero ELSE newCusumNeg],
      changeDetected |-> changeDetected]

\* updateCUSUM that resets the whole arm when it detects a change
updateCUSUM_ResetsArm(arm, newReward) ==
  LET innovation == RSub(RSub(newReward, arm.avgReward), CUSUM_DRIFT_DELTA)
      newCusumPos == RMax(Zero, RAdd(arm.cusumPositive, innovation))
      newCusumNeg == RMax(Zero, RSub(RSub(arm.cusumNegative, innovation),
                                     CUSUM_DRIFT_DELTA))
      changeDetected == RGt(newCusumPos, RInt(CUSUM_THRESHOLD))
                        \/ RGt(newCusumNeg, RInt(CUSUM_THRESHOLD))
  IN [arm |-> IF changeDetected
                THEN [arm EXCEPT !.pulls = 0, !.totalReward = Zero,
                                 !.avgReward = Zero, !.alpha = 1, !.beta = 1,
                                 !.cusumPositive = Zero,
                                 !.cusumNegative = Zero]
                ELSE [arm EXCEPT !.cusumPositive = newCusumPos,
                                 !.cusumNegative = newCusumNeg],
      changeDetected |-> changeDetected]

\* updateCUSUM with the reward folded into its own baseline
updateCUSUM_FoldedBaseline(arm, newReward) ==
  LET expectedReward == RDivInt(RAdd(arm.totalReward, newReward),
                                arm.pulls + 1)
      innovation == RSub(RSub(newReward, expectedReward), CUSUM_DRIFT_DELTA)
      newCusumPos == RMax(Zero, RAdd(arm.cusumPositive, innovation))
      newCusumNeg == RMax(Zero, RSub(RSub(arm.cusumNegative, innovation),
                                     CUSUM_DRIFT_DELTA))
      changeDetected == RGt(newCusumPos, RInt(CUSUM_THRESHOLD))
                        \/ RGt(newCusumNeg, RInt(CUSUM_THRESHOLD))
  IN [arm |-> [arm EXCEPT
                 !.cusumPositive = IF changeDetected THEN Zero ELSE newCusumPos,
                 !.cusumNegative = IF changeDetected THEN Zero ELSE newCusumNeg],
      changeDetected |-> changeDetected]

updateCUSUM(arm, newReward) ==
  LET expectedReward == arm.avgReward
      innovation == RSub(RSub(newReward, expectedReward), CUSUM_DRIFT_DELTA)
      newCusumPos == RMax(Zero, RAdd(arm.cusumPositive, innovation))
      newCusumNeg == RMax(Zero, RSub(RSub(arm.cusumNegative, innovation),
                                     CUSUM_DRIFT_DELTA))
      changeDetected == RGt(newCusumPos, RInt(CUSUM_THRESHOLD))
                        \/ RGt(newCusumNeg, RInt(CUSUM_THRESHOLD))
  IN [arm |-> [arm EXCEPT
                 !.cusumPositive = IF changeDetected THEN Zero ELSE newCusumPos,
                 !.cusumNegative = IF changeDetected THEN Zero ELSE newCusumNeg],
      changeDetected |-> changeDetected]

\* foldReward with a reward of exactly 2.0 counted as a failure (> for >=)
foldReward_StrictSuccess(armAfterCusum, roasReward) ==
  LET newPulls == armAfterCusum.pulls + 1
      newTotal == RAdd(armAfterCusum.totalReward, roasReward)
      newAvg == RDivInt(newTotal, newPulls)
      isSuccess == RGt(roasReward, RInt(2))
  IN [armAfterCusum EXCEPT
        !.pulls = newPulls,
        !.totalReward = newTotal,
        !.avgReward = newAvg,
        !.alpha = @ + (IF isSuccess THEN 1 ELSE 0),
        !.beta = @ + (IF isSuccess THEN 0 ELSE 1),
        !.lastUpdated = now]

\* updateArmReward, lines 222-236: the record handed to saveArm
foldReward(armAfterCusum, roasReward) ==
  LET newPulls == armAfterCusum.pulls + 1
      newTotal == RAdd(armAfterCusum.totalReward, roasReward)
      newAvg == RDivInt(newTotal, newPulls)
      isSuccess == RGe(roasReward, RInt(2))
  IN [armAfterCusum EXCEPT
        !.pulls = newPulls,
        !.totalReward = newTotal,
        !.avgReward = newAvg,
        !.alpha = @ + (IF isSuccess THEN 1 ELSE 0),
        !.beta = @ + (IF isSuccess THEN 0 ELSE 1),
        !.lastUpdated = now]

----------------------------------------------------------------------------
(* Scoring *)

RECURSIVE Log2(_)
\* floor(log2(n)) for n >= 1
Log2(n) == IF n < 2 THEN 0 ELSE 1 + Log2(n \div 2)

RECURSIVE Pow2(_)
Pow2(k) == IF k = 0 THEN 1 ELSE 2 * Pow2(k - 1)

\* Math.log(t) in units of 1/10000, for an integer t >= 1:
\* ln t = k ln 2 + 2 atanh z, z = (t - 2^k) / (t + 2^k), k = floor(log2 t)
LnE4(t) ==
  LET k == Log2(t)
      z == ((t - Pow2(k)) * 10000) \div (t + Pow2(k))
      z2 == (z * z) \div 10000
      z3 == (z * z2) \div 10000
      z5 == (z3 * z2) \div 10000
      z7 == (z5 * z2) \div 10000
  IN k * 6931 + 2 * (z + z3 \div 3 + z5 \div 5 + z7 \div 7)

RECURSIVE SqrtFrom(_, _)
SqrtFrom(n, r) == IF r * r <= n THEN r ELSE SqrtFrom(n, (r + n \div r) \div 2)

\* floor(sqrt(n)) for 0 <= n < 10^6
ISqrt(n) == SqrtFrom(n, 1000)

\* calculateUCB1; the exploration term C * sqrt(ln(totalPulls) / pulls) is
\* computed as sqrt(C^2 ln(totalPulls) / pulls) in units of 1/100
calculateUCB1(arm, totalPulls) ==
  IF arm.pulls = 0 THEN Infinity
  ELSE RAdd(arm.avgReward,
            Q(ISqrt((EXPLORATION_CONSTANT * EXPLORATION_CONSTANT
                     * LnE4(totalPulls)) \div arm.pulls), 100))

RECURSIVE SumPulls(_, _)
SumPulls(arms, i) ==
  IF i > Len(arms) THEN 0 ELSE arms[i].pulls + SumPulls(arms, i + 1)

\* scoreArms with 30 pulls still counted as cold start (<= for <)
scoreArms_InclusiveColdStart(arms, samples) ==
  LET totalPulls == SumPulls(arms, 1) IN
  [i \in 1..Len(arms) |->
     IF arms[i].pulls <= COLD_START_THRESHOLD
       THEN [arm |-> arms[i], score |-> samples[i],
             reason |-> "THOMPSON_SAMPLING"]
       ELSE [arm |-> arms[i], score |-> calculateUCB1(arms[i], totalPulls),
             reason |-> "UCB1"]]

\* runMABAllocation, lines 271-289; samples[i] is what thompsonSample(arms[i])
\* returns if it is called
scoreArms(arms, samples) ==
  LET totalPulls == SumPulls(arms, 1) IN
  [i \in 1..Len(arms) |->
     IF arms[i].pulls < COLD_START_THRESHOLD
       THEN [arm |-> arms[i], score |-> samples[i],
             reason |-> "THOMPSON_SAMPLING"]
       ELSE [arm |-> arms[i], score |-> calculateUCB1(arms[i], totalPulls),
             reason |-> "UCB1"]]

----------------------------------------------------------------------------
(* Allocation *)

RECURSIVE MulDiv(_, _, _)
\* quotient and remainder of a * b by c, without the product a * b
MulDiv(a, b, c) ==
  IF b = 0 THEN [q |-> 0, r |-> 0]
  ELSE LET h == MulDiv(a, b \div 2, c)
           r2 == 2 * h.r + (IF b % 2 = 1 THEN a % c ELSE 0)
           q2 == 2 * h.q + (IF b % 2 = 1 THEN a \div c ELSE 0)
       IN [q |-> q2 + r2 \div c, r |-> r2 % c]

\* Math.round(total * proportion) for a proportion n/d >= 0: nearest integer,
\* halves upwards
RoundMul(total, proportion) ==
  LET h == MulDiv(total, proportion.n, proportion.d)
  IN h.q + (IF 2 * h.r >= proportion.d THEN 1 ELSE 0)

RDiv(x, y) == Q(x.n * y.d, x.d * y.n)

\* normalizedScore that also gives cold-start samples (below 1) the weight 2
normalizedScore_ColdStartAsTwo(score) ==
  IF isFinite(score) /\ RGe(score, RInt(1)) THEN score ELSE RInt(2)

normalizedScore(score) == IF isFinite(score) THEN score ELSE RInt(2)

RECURSIVE SumScores(_, _)
SumScores(scoredArms, i) ==
  IF i > Len(scoredArms) THEN Zero
  ELSE RAdd(normalizedScore(scoredArms[i].score), SumScores(scoredArms, i + 1))

\* allocatedBudget with Math.floor for Math.round
allocatedBudget_Truncating(totalDailyBudgetPaisa, proportion) ==
  LET rawBudget == MulDiv(totalDailyBudgetPaisa, proportion.n, proportion.d).q
  IN IF rawBudget >= MIN_BUDGET_PAISA THEN rawBudget ELSE MIN_BUDGET_PAISA

\* allocatedBudget without the Math.max of line 299
allocatedBudget_NoFloor(totalDailyBudgetPaisa, proportion) ==
  RoundMul(totalDailyBudgetPaisa, proportion)

\* lines 298-299: the budget of one arm
allocatedBudget(totalDailyBudgetPaisa, proportion) ==
  LET rawBudget == RoundMul(totalDailyBudgetPaisa, proportion)
  IN IF rawBudget >= MIN_BUDGET_PAISA THEN rawBudget ELSE MIN_BUDGET_PAISA

\* runMABAllocation, lines 291-308
decide(scoredArms, totalDailyBudgetPaisa) ==
  LET totalScore == SumScores(scoredArms, 1) IN
  [i \in 1..Len(scoredArms) |->
     LET proportion == RDiv(normalizedScore(scoredArms[i].score), totalScore)
     IN [campaignId |-> scoredArms[i].arm.campaignId,
         adSetId |-> scoredArms[i].arm.adSetId,
         allocatedBudgetPaisa |->
           allocatedBudget(totalDailyBudgetPaisa, proportion),
         ucbScore |-> scoredArms[i].score,
         reason |-> scoredArms[i].reason]]

\* the record of logger.info(..., 'MAB allocation complete'), lines 311-314
allocationLog(userId, totalDailyBudgetPaisa, decisions) ==
  [userId |-> userId, totalBudget |-> totalDailyBudgetPaisa,
   arms |-> Len(decisions)]

----------------------------------------------------------------------------
(* Initial state *)

\* the fields of an arm that the bandit learns from
Learn(arm) ==
  [pulls |-> arm.pulls, totalReward |-> arm.totalReward,
   avgReward |-> arm.avgReward, alpha |-> arm.alpha, beta |-> arm.beta,
   cusumPositive |-> arm.cusumPositive, cusumNegative |-> arm.cusumNegative]

IdleUpdater ==
  [pc |-> "idle", campaignId |-> "", adSetId |-> "", roasReward |-> Zero,
   absent |-> FALSE, arm |-> <<>>, armAfterCusum |-> <<>>,
   changeDetected |-> FALSE]

\* metrics-poller.ts line 256 (`let isRunning = false`) and no pollMetrics
\* invocation started; `outcome` is how the slot's last invocation ended,
\* `synced` whether it called the sync functions
IdleRun == [pc |-> "idle", outcome |-> "none", synced |-> FALSE]

IdlePoller ==
  [isRunning |-> FALSE, run |-> [p \in Pollers |-> IdleRun],
   ticks |-> 0, failed |-> 0, lastPoll |-> 0]

\* whatsapp-fsm.ts: a processWhatsAppMessage invocation that has not started
IdleHandler == [pc |-> "idle", currentState |-> "", nextState |-> ""]

\* no lead row for the phone number, hence no conversation row
NoLead ==
  [lead |-> FALSE, leadStatus |-> <<>>, conversation |-> <<>>,
   handler |-> [m \in Handlers |-> IdleHandler],
   welcome |-> [w \in Welcomers |-> "idle"],
   messages |-> 0, leads |-> 0]

IdleCycler ==
  [pc |-> "idle", totalDailyBudgetPaisa |-> 0, arms |-> <<>>,
   scoredArms |-> <<>>, decisions |-> <<>>, log |-> <<>>, i |-> 0,
   landed |-> {}, persisted |-> {}, failedAt |-> <<>>]

\* the state in which the arms of `warmSets` have had 30 rewards of 2.0 each
\* and no request is running
InitWith(warmSets) ==
  /\ now = 0
  /\ \E warm \in warmSets :
       /\ store = [k \in warm |-> WarmArm(k)]
       /\ expireAt = [k \in warm |-> ARM_TTL_DAYS]
       /\ hist = [updates |-> 0, cycles |-> 0,
                  base |-> [k \in ArmKeys |->
                              IF k \in warm THEN Learn(WarmArm(k))
                              ELSE Learn(NewArm(k[1], k[2]))],
                  completed |-> [k \in ArmKeys |-> 0],
                  rewardSum |-> [k \in ArmKeys |-> Zero],
                  lastWrite |-> [k \in ArmKeys |->
                              IF k \in warm THEN Learn(WarmArm(k))
                              ELSE Learn(NewArm(k[1], k[2]))],
                  firstDetected |-> [k \in ArmKeys |-> 0],
                  raised |-> FALSE, pushFailed |-> FALSE,
                  lastObserved |-> [k \in ArmKeys |-> 0],
                  cycleWrote |-> [k \in ArmKeys |-> <<>>],
                  lastUpd |-> <<>>]
  /\ upd = [u \in Updaters |-> IdleUpdater]
  /\ cyc = [c \in Cyclers |-> IdleCycler]
  /\ agentLog = <<>>
  /\ budgetAllocation = <<>>
  /\ platformBudget = <<>>
  /\ poller = IdlePoller
  /\ wa = NoLead

Init == InitWith({{}, ArmKeys})

----------------------------------------------------------------------------
(* updateArmReward(campaignId, adSetId, roasReward), called by recordArmReward *)

\* line 204: the call starts and redis.get answers; line 207 runs on the answer
UpdLoad(u, key, roasReward) ==
  /\ upd[u].pc = "idle"
  /\ \A v \in Updaters : v < u => upd[v].pc # "idle"
  /\ LET arm == loadArm(key[1], key[2])
         cusum == updateCUSUM(arm, roasReward)
     IN upd' = [upd EXCEPT ![u] =
                  [pc |-> IF cusum.changeDetected THEN "log" ELSE "save",
                   campaignId |-> key[1], adSetId |-> key[2],
                   roasReward |-> roasReward,
                   absent |-> mabArmKey(key[1], key[2]) \notin DOMAIN store,
                   arm |-> <<arm>>, armAfterCusum |-> <<cusum.arm>>,
                   changeDetected |-> cusum.changeDetected]]
  /\ hist' = [hist EXCEPT !.updates = @ + 1]
  /\ UNCHANGED <<poller, wa, store, expireAt, now, cyc, agentLog, budgetAllocation,
                 platformBudget>>

\* lines 208-220: prisma.agentLog.create
UpdLog(u) ==
  /\ upd[u].pc = "log"
  /\ agentLog' = Append(agentLog,
       [agentName |-> "MABEngine", action |-> "cusum_change_detected",
        campaignId |-> upd[u].campaignId, adSetId |-> upd[u].adSetId,
        roasReward |-> upd[u].roasReward,
        previousAvg |-> upd[u].arm[1].avgReward, status |-> "SUCCESS"])
  /\ upd' = [upd EXCEPT ![u].pc = "save"]
  /\ UNCHANGED <<poller, wa, store, expireAt, now, cyc, budgetAllocation, platformBudget,
                 hist>>

\* whether cycler c holds a copy of arm `key` that it has yet to persist
HoldsUnpersisted(c, key) ==
  /\ cyc[c].pc \in {"load", "score", "decide", "persist"}
  /\ \E j \in 1..Len(cyc[c].arms) :
       /\ mabArmKey(cyc[c].arms[j].campaignId, cyc[c].arms[j].adSetId) = key
       /\ cyc[c].pc = "persist" => cyc[c].i <= j

\* lines 222-238: the reward is folded in and redis.set stores the record
UpdSave(u) ==
  /\ upd[u].pc = "save"
  /\ LET updatedArm == foldReward(upd[u].armAfterCusum[1], upd[u].roasReward)
         key == mabArmKey(updatedArm.campaignId, updatedArm.adSetId)
     IN /\ store' = saveArm(updatedArm)
        /\ expireAt' = saveArmTtl(updatedArm)
        /\ hist' = [hist EXCEPT
             !.completed[key] = @ + 1,
             !.rewardSum[key] = RAdd(@, upd[u].roasReward),
             !.lastWrite[key] = Learn(updatedArm),
             !.lastObserved[key] = now,
             !.firstDetected[key] =
                IF @ = 0 /\ upd[u].changeDetected
                  THEN hist.completed[key] + 1 ELSE @,
             !.lastUpd = <<[key |-> key, roasReward |-> upd[u].roasReward,
                            absent |-> upd[u].absent,
                            prior |-> upd[u].arm[1],
                            written |-> Serialize(updatedArm),
                            changeDetected |-> upd[u].changeDetected]>>]
        /\ cyc' = [c \in Cyclers |->
             IF HoldsUnpersisted(c, key)
               THEN [cyc[c] EXCEPT !.landed = @ \cup {key}]
               ELSE cyc[c]]
  /\ upd' = [upd EXCEPT ![u] = IdleUpdater]
  /\ UNCHANGED <<poller, wa, now, agentLog, budgetAllocation, platformBudget>>

----------------------------------------------------------------------------
(* runFullMABCycle(userId, totalBudgetPaisa), called by triggerMAB *)

\* prisma.campaign.findUnique({ where: { id } })
findCampaign(id) ==
  LET ix == {i \in 1..Len(Campaigns) : Campaigns[i].id = id}
  IN IF ix = {} THEN <<>> ELSE <<Campaigns[CHOOSE i \in ix : TRUE]>>

\* arms.find(...) of line 318: the index of the first arm of the decision
findArm(arms, decision) ==
  LET ix == {j \in 1..Len(arms) : /\ arms[j].campaignId = decision.campaignId
                                  /\ arms[j].adSetId = decision.adSetId}
  IN IF ix = {} THEN 0 ELSE CHOOSE j \in ix : \A k \in ix : j <= k

\* lines 250-258, 403-407: the call starts, campaign.findMany answers
CycleStart(c, totalBudgetPaisa) ==
  /\ cyc[c].pc = "idle"
  /\ \A d \in Cyclers : d < c => cyc[d].pc # "idle"
  /\ cyc' = [cyc EXCEPT ![c] =
       [IdleCycler EXCEPT
          !.pc = IF Len(Campaigns) = 0 \/ Len(ArmList) = 0
                   THEN "done" ELSE "load",
          !.totalDailyBudgetPaisa = totalBudgetPaisa]]
  /\ hist' = [hist EXCEPT !.cycles = @ + 1]
  /\ UNCHANGED <<poller, wa, store, expireAt, now, upd, agentLog, budgetAllocation,
                 platformBudget>>

\* CycleLoad that goes on to the scoring after its first loadArm
CycleLoad_ScoresEarly(c) ==
  /\ cyc[c].pc = "load"
  /\ LET key == ArmList[Len(cyc[c].arms) + 1]
         arms == Append(cyc[c].arms, loadArm(key[1], key[2]))
     IN cyc' = [cyc EXCEPT ![c].arms = arms, ![c].pc = "score"]
  /\ UNCHANGED <<poller, wa, store, expireAt, now, upd, agentLog, budgetAllocation,
                 platformBudget, hist>>

\* lines 262-267: one loadArm of the loop
CycleLoad(c) ==
  /\ cyc[c].pc = "load"
  /\ LET key == ArmList[Len(cyc[c].arms) + 1]
         arms == Append(cyc[c].arms, loadArm(key[1], key[2]))
     IN cyc' = [cyc EXCEPT
          ![c].arms = arms,
          ![c].pc = IF Len(arms) = Len(ArmList) THEN "score" ELSE "load"]
  /\ UNCHANGED <<poller, wa, store, expireAt, now, upd, agentLog, budgetAllocation,
                 platformBudget, hist>>

\* lines 269-289: the scores, with the draws of thompsonSample
CycleScore(c) ==
  /\ cyc[c].pc = "score"
  /\ \E samples \in [1..Len(cyc[c].arms) -> ThompsonSamples] :
       cyc' = [cyc EXCEPT
         ![c].scoredArms = scoreArms(cyc[c].arms, samples),
         ![c].pc = "decide"]
  /\ UNCHANGED <<poller, wa, store, expireAt, now, upd, agentLog, budgetAllocation,
                 platformBudget, hist>>

\* lines 291-314: the decisions and the log line
CycleDecide(c) ==
  /\ cyc[c].pc = "decide"
  /\ LET decisions == decide(cyc[c].scoredArms, cyc[c].totalDailyBudgetPaisa)
     IN cyc' = [cyc EXCEPT
          ![c].decisions = decisions,
          ![c].log = <<allocationLog("u1", cyc[c].totalDailyBudgetPaisa,
                                     decisions)>>,
          ![c].i = 1,
          ![c].pc = "persist"]
  /\ UNCHANGED <<poller, wa, store, expireAt, now, upd, agentLog, budgetAllocation,
                 platformBudget, hist>>

\* CyclePersist that counts the allocation as a pull of the arm
CyclePersist_CountingPull(c) ==
  /\ cyc[c].pc = "persist"
  /\ LET decision == cyc[c].decisions[cyc[c].i]
         j == findArm(cyc[c].arms, decision)
     IN IF j = 0
          THEN /\ cyc' = [cyc EXCEPT ![c].pc = "upsert"]
               /\ UNCHANGED <<store, expireAt, hist>>
          ELSE LET arm == [cyc[c].arms[j] EXCEPT !.ucbScore = decision.ucbScore,
                                                !.pulls = @ + 1]
                   key == mabArmKey(arm.campaignId, arm.adSetId)
               IN /\ store' = saveArm(arm)
                  /\ expireAt' = saveArmTtl(arm)
                  /\ cyc' = [cyc EXCEPT ![c].arms[j] = arm,
                                        ![c].persisted = @ \cup {key},
                                        ![c].pc = "upsert"]
                  /\ hist' = [hist EXCEPT
                                !.cycleWrote[key] = <<Serialize(arm)>>]
  /\ UNCHANGED <<poller, wa, now, upd, agentLog, budgetAllocation, platformBudget>>

\* lines 317-321: the cycle's copy of the arm gets the score and is saved
CyclePersist(c) ==
  /\ cyc[c].pc = "persist"
  /\ LET decision == cyc[c].decisions[cyc[c].i]
         j == findArm(cyc[c].arms, decision)
     IN IF j = 0
          THEN /\ cyc' = [cyc EXCEPT ![c].pc = "upsert"]
               /\ UNCHANGED <<store, expireAt, hist>>
          ELSE LET arm == [cyc[c].arms[j] EXCEPT !.ucbScore = decision.ucbScore]
                   key == mabArmKey(arm.campaignId, arm.adSetId)
               IN /\ store' = saveArm(arm)
                  /\ expireAt' = saveArmTtl(arm)
                  /\ cyc' = [cyc EXCEPT ![c].arms[j] = arm,
                                        ![c].persisted = @ \cup {key},
                                        ![c].pc = "upsert"]
                  /\ hist' = [hist EXCEPT
                                !.cycleWrote[key] = <<Serialize(arm)>>]
  /\ UNCHANGED <<poller, wa, now, upd, agentLog, budgetAllocation, platformBudget>>

\* lines 323-345: prisma.budgetAllocation.upsert by campaignId_date;
\* line 349 and lines 408-409 follow the last one
CycleUpsert(c) ==
  /\ cyc[c].pc = "upsert"
  /\ LET decision == cyc[c].decisions[cyc[c].i]
         key == <<decision.campaignId, now>>
         row == [campaignId |-> decision.campaignId, date |-> now,
                 allocated |-> decision.allocatedBudgetPaisa,
                 ucbScore |-> IF isFinite(decision.ucbScore)
                                THEN decision.ucbScore ELSE RInt(99),
                 reallocationReason |-> <<"MAB", decision.reason>>,
                 triggerType |-> "UCB_SCHEDULED"]
     IN /\ IF findArm(cyc[c].arms, decision) = 0
             THEN UNCHANGED budgetAllocation
             ELSE budgetAllocation' =
                    [k \in DOMAIN budgetAllocation \cup {key} |->
                       IF k = key THEN row ELSE budgetAllocation[k]]
        /\ cyc' = [cyc EXCEPT
             ![c].i = IF cyc[c].i = Len(cyc[c].decisions) THEN 1 ELSE @ + 1,
             ![c].pc = IF cyc[c].i = Len(cyc[c].decisions)
                         THEN "apply" ELSE "persist"]
  /\ UNCHANGED <<poller, wa, store, expireAt, now, upd, agentLog, platformBudget, hist>>

\* applyBudgetAllocations, lines 362-396: one turn of the loop; `ok` is whether
\* the platform call succeeds (a failure is caught and logged)
CycleApply(c) ==
  /\ cyc[c].pc = "apply"
  /\ LET decision == cyc[c].decisions[cyc[c].i]
         campaign == findCampaign(decision.campaignId)
     IN \E ok \in BOOLEAN :
          /\ IF /\ campaign # <<>>
                /\ campaign[1].externalId # ""
                /\ campaign[1].platform = "META"
                /\ ok
               THEN platformBudget' =
                      [x \in DOMAIN platformBudget
                                \cup {campaign[1].externalId} |->
                         IF x = campaign[1].externalId
                           THEN decision.allocatedBudgetPaisa
                           ELSE platformBudget[x]]
               ELSE UNCHANGED platformBudget
          /\ hist' = [hist EXCEPT !.pushFailed = @ \/ ~ok]
  /\ cyc' = [cyc EXCEPT
       ![c].i = @ + 1,
       ![c].pc = IF cyc[c].i = Len(cyc[c].decisions) THEN "done" ELSE "apply"]
  /\ UNCHANGED <<poller, wa, store, expireAt, now, upd, agentLog, budgetAllocation>>

\* line 264 with line 170: redis.get rejects, so the await of loadArm throws
\* out of the loop and out of runMABAllocation
CycleLoadFails(c) ==
  /\ cyc[c].pc = "load"
  /\ cyc' = [cyc EXCEPT
       ![c].failedAt = <<ArmList[Len(cyc[c].arms) + 1]>>,
       ![c].pc = "raised"]
  /\ hist' = [hist EXCEPT !.raised = TRUE]
  /\ UNCHANGED <<poller, wa, store, expireAt, now, upd, agentLog, budgetAllocation,
                 platformBudget>>

\* line 321 with line 192: redis.set rejects, so the await of saveArm throws
\* out of the loop and out of runMABAllocation
CyclePersistFails(c) ==
  /\ cyc[c].pc = "persist"
  /\ findArm(cyc[c].arms, cyc[c].decisions[cyc[c].i]) # 0
  /\ LET decision == cyc[c].decisions[cyc[c].i]
     IN cyc' = [cyc EXCEPT
          ![c].failedAt = <<mabArmKey(decision.campaignId, decision.adSetId)>>,
          ![c].pc = "raised"]
  /\ hist' = [hist EXCEPT !.raised = TRUE]
  /\ UNCHANGED <<poller, wa, store, expireAt, now, upd, agentLog, budgetAllocation,
                 platformBudget>>

\* CycleRaise that takes back the records the cycle persisted
CycleRaise_RollingBack(c) ==
  /\ cyc[c].pc = "raised"
  /\ store' = [k \in DOMAIN store \ cyc[c].persisted |-> store[k]]
  /\ expireAt' = [k \in DOMAIN expireAt \ cyc[c].persisted |-> expireAt[k]]
  /\ cyc' = [cyc EXCEPT ![c] = IdleCycler]
  /\ UNCHANGED <<poller, wa, now, upd, agentLog, budgetAllocation, platformBudget, hist>>

\* line 407: the rejection of runMABAllocation leaves runFullMABCycle, which
\* has no try, and reaches the caller; nothing is undone
CycleRaise(c) ==
  /\ cyc[c].pc = "raised"
  /\ cyc' = [cyc EXCEPT ![c] = IdleCycler]
  /\ UNCHANGED <<poller, wa, store, expireAt, now, upd, agentLog, budgetAllocation,
                 platformBudget, hist>>

\* line 411: { decisions, applied: true } goes back to the caller
CycleReturn(c) ==
  /\ cyc[c].pc = "done"
  /\ cyc' = [cyc EXCEPT ![c] = IdleCycler]
  /\ UNCHANGED <<poller, wa, store, expireAt, now, upd, agentLog, budgetAllocation,
                 platformBudget, hist>>

----------------------------------------------------------------------------
Next ==
  \/ \E u \in Updaters, key \in ArmKeys, r \in Rewards :
       hist.updates < MaxUpdates /\ UpdLoad(u, key, r)
  \/ \E u \in Updaters : UpdLog(u)
  \/ \E u \in Updaters : UpdSave(u)
  \/ \E c \in Cyclers, b \in Budgets :
       hist.cycles < MaxCycles /\ CycleStart(c, b)
  \/ \E c \in Cyclers : CycleLoad(c)
  \/ \E c \in Cyclers : CycleScore(c)
  \/ \E c \in Cyclers : CycleDecide(c)
  \/ \E c \in Cyclers : CyclePersist(c)
  \/ \E c \in Cyclers : CycleUpsert(c)
  \/ \E c \in Cyclers : CycleApply(c)
  \/ \E c \in Cyclers : CycleReturn(c)

Spec == Init /\ [][Next]_vars

----------------------------------------------------------------------------
(* The two-cycle workload: triggerMAB requests that overlap, no reward *)

NextCycles ==
  \/ \E c \in Cyclers, b \in Budgets :
       hist.cycles < MaxRacingCycles /\ CycleStart(c, b)
  \/ \E c \in Cyclers : CycleLoad(c)
  \/ \E c \in Cyclers : CycleScore(c)
  \/ \E c \in Cyclers : CycleDecide(c)
  \/ \E c \in Cyclers : CyclePersist(c)
  \/ \E c \in Cyclers : CycleUpsert(c)
  \/ \E c \in Cyclers : CycleApply(c)
  \/ \E c \in Cyclers : CycleReturn(c)

SpecCycles == Init /\ [][NextCycles]_vars

----------------------------------------------------------------------------
(* The sequential workload: one request at a time, a wider range of rewards *)

AllIdle ==
  /\ \A u \in Updaters : upd[u].pc = "idle"
  /\ \A c \in Cyclers : cyc[c].pc = "idle"

InitSeq == InitWith(SUBSET ArmKeys)

NextSeq ==
  \/ \E key \in ArmKeys, r \in SeqRewards :
       AllIdle /\ hist.updates < MaxSeqUpdates /\ UpdLoad(1, key, r)
  \/ UpdLog(1)
  \/ UpdSave(1)
  \/ \E b \in Budgets :
       AllIdle /\ hist.cycles < MaxSeqCycles /\ CycleStart(1, b)
  \/ CycleLoad(1)
  \/ CycleScore(1)
  \/ CycleDecide(1)
  \/ CyclePersist(1)
  \/ CycleUpsert(1)
  \/ CycleApply(1)
  \/ CycleReturn(1)

SpecSeq == InitSeq /\ [][NextSeq]_vars

----------------------------------------------------------------------------
(* The failing-store workload: cycles one at a time, whose redis.get and
   redis.set may reject *)

NextFail ==
  \/ \E b \in Budgets :
       AllIdle /\ hist.cycles < MaxFailCycles /\ CycleStart(1, b)
  \/ CycleLoad(1)
  \/ CycleLoadFails(1)
  \/ CycleScore(1)
  \/ CycleDecide(1)
  \/ CyclePersist(1)
  \/ CyclePersistFails(1)
  \/ CycleUpsert(1)
  \/ CycleApply(1)
  \/ CycleReturn(1)
  \/ CycleRaise(1)

SpecFail == InitSeq /\ [][NextFail]_vars

----------------------------------------------------------------------------
(* The clock workload: overlapping requests, and days passing between them *)

\* TickDays days pass while no request is running; Redis drops the keys whose
\* time to live has run out
Tick ==
  /\ AllIdle
  /\ now + TickDays <= MaxDays
  /\ now' = now + TickDays
  /\ LET live == {k \in DOMAIN store : expireAt[k] > now + TickDays}
     IN /\ store' = [k \in live |-> store[k]]
        /\ expireAt' = [k \in live |-> expireAt[k]]
  /\ UNCHANGED <<poller, wa, upd, cyc, agentLog, budgetAllocation, platformBudget, hist>>

NextTime ==
  \/ Next
  \/ Tick

SpecTime == Init /\ [][NextTime]_vars

----------------------------------------------------------------------------
(* The allocation workload: lines 291-314 applied to a list of scored arms *)

\* scores of the scored arms: below 1 as thompsonSample gives them, above 1
\* as calculateUCB1 gives them
AllocScores == {Q(1, 4), Q(3, 4), Q(3, 2), Q(7, 2)}
AllocBudgets == {500000, 1000000, 3000000, 10000000}
AllocAdSets == <<"a1", "a2", "a3", "a4", "a5">>

\* arm i of the list as the scoring step leaves it with this score
ScoredWith(i, score) ==
  IF RLt(score, RInt(1))
    THEN [arm |-> [NewArm("c1", AllocAdSets[i]) EXCEPT !.lastUpdated = 0],
          score |-> score, reason |-> "THOMPSON_SAMPLING"]
    ELSE [arm |-> WarmArm(<<"c1", AllocAdSets[i]>>),
          score |-> score, reason |-> "UCB1"]

InitAlloc ==
  /\ now = 0
  /\ store = <<>>
  /\ expireAt = <<>>
  /\ hist = [updates |-> 0, cycles |-> 1,
             base |-> [k \in ArmKeys |-> Learn(NewArm(k[1], k[2]))],
             completed |-> [k \in ArmKeys |-> 0],
             rewardSum |-> [k \in ArmKeys |-> Zero],
             lastWrite |-> [k \in ArmKeys |-> Learn(NewArm(k[1], k[2]))],
             firstDetected |-> [k \in ArmKeys |-> 0],
                  raised |-> FALSE, pushFailed |-> FALSE,
                  lastObserved |-> [k \in ArmKeys |-> 0],
                  cycleWrote |-> [k \in ArmKeys |-> <<>>],
             lastUpd |-> <<>>]
  /\ upd = [u \in Updaters |-> IdleUpdater]
  /\ \E n \in 1..MaxAllocArms, total \in AllocBudgets :
       \E scores \in [1..n -> AllocScores] :
         LET scoredArms == [i \in 1..n |-> ScoredWith(i, scores[i])] IN
         cyc = [c \in Cyclers |->
                  IF c = 1
                    THEN [IdleCycler EXCEPT
                            !.pc = "decide",
                            !.totalDailyBudgetPaisa = total,
                            !.arms = [i \in 1..n |-> scoredArms[i].arm],
                            !.scoredArms = scoredArms]
                    ELSE IdleCycler]
  /\ agentLog = <<>>
  /\ budgetAllocation = <<>>
  /\ platformBudget = <<>>
  /\ poller = IdlePoller
  /\ wa = NoLead

NextAlloc == CycleDecide(1)

SpecAlloc == InitAlloc /\ [][NextAlloc]_vars

----------------------------------------------------------------------------
(* The series workload: one client sends a series of rewards to one arm, one
   call at a time *)

\* an arm after rewards 0, 0 and 6 and no cycle, as updateArmReward leaves it:
\* the third call detects a change and stores both accumulators as 0
ShiftedArm(key) ==
  [campaignId |-> key[1], adSetId |-> key[2],
   pulls |-> 3, totalReward |-> RInt(6), avgReward |-> RInt(2),
   ucbScore |-> JsonNull, alpha |-> 2, beta |-> 3,
   cusumPositive |-> Zero, cusumNegative |-> Zero,
   lastUpdated |-> 0]

SeriesKinds == {"SHIFT", "BELOW"}

\* the next reward of a series for an arm: 5.0 whatever the arm, or the arm's
\* average less (pulls + 1)/800, which is within 0.25 of the average up to
\* 199 pulls
SeriesReward(kind, arm) ==
  IF kind = "SHIFT" THEN RInt(5)
  ELSE RSub(arm.avgReward, Q(arm.pulls + 1, 800))

\* the series a call belongs to
SeriesOf(call) == IF call.roasReward = RInt(5) THEN "SHIFT" ELSE "BELOW"

SeriesCalls(kind) == IF kind = "SHIFT" THEN MaxShiftCalls ELSE MaxStableCalls

InitRun ==
  /\ now = 0
  /\ \E shifted \in SUBSET ArmKeys :
       /\ store = [k \in ArmKeys |->
                     IF k \in shifted THEN ShiftedArm(k) ELSE WarmArm(k)]
       /\ hist = [updates |-> 0, cycles |-> 0,
                  base |-> [k \in ArmKeys |->
                              IF k \in shifted THEN Learn(ShiftedArm(k))
                              ELSE Learn(WarmArm(k))],
                  completed |-> [k \in ArmKeys |-> 0],
                  rewardSum |-> [k \in ArmKeys |-> Zero],
                  lastWrite |-> [k \in ArmKeys |->
                              IF k \in shifted THEN Learn(ShiftedArm(k))
                              ELSE Learn(WarmArm(k))],
                  firstDetected |-> [k \in ArmKeys |-> 0],
                  raised |-> FALSE, pushFailed |-> FALSE,
                  lastObserved |-> [k \in ArmKeys |-> 0],
                  cycleWrote |-> [k \in ArmKeys |-> <<>>],
                  lastUpd |-> <<>>]
  /\ expireAt = [k \in ArmKeys |-> ARM_TTL_DAYS]
  /\ upd = [u \in Updaters |-> IdleUpdater]
  /\ cyc = [c \in Cyclers |-> IdleCycler]
  /\ agentLog = <<>>
  /\ budgetAllocation = <<>>
  /\ platformBudget = <<>>
  /\ poller = IdlePoller
  /\ wa = NoLead

NextRun ==
  \/ \E key \in ArmKeys, kind \in SeriesKinds :
       /\ AllIdle
       /\ hist.updates < SeriesCalls(kind)
       /\ hist.lastUpd # <<>> =>
            key = hist.lastUpd[1].key /\ kind = SeriesOf(hist.lastUpd[1])
       /\ UpdLoad(1, key, SeriesReward(kind, loadArm(key[1], key[2])))
  \/ UpdLog(1)
  \/ UpdSave(1)

SpecRun == InitRun /\ [][NextRun]_vars

----------------------------------------------------------------------------
(* The metrics poller, metrics-poller.ts lines 256-325.  startMetricsPoller
   arms a timeout and a 15-minute interval; each firing calls pollMetrics.
   Nothing in the poller calls runFullMABCycle: budget.ts line 158
   (triggerMAB) is the only caller. *)

\* the timers fire for as long as the process lives; the model counts the
\* firings (and the failed polls) up to MaxTicks and then stops counting
CountUp(n) == IF n < MaxTicks THEN n + 1 ELSE MaxTicks

\* lines 297-301: the catch block logs, the finally block clears the flag
PollFailed(p) ==
  poller' = [poller EXCEPT !.isRunning = FALSE,
                           !.failed = CountUp(@),
                           !.run[p].pc = "idle",
                           !.run[p].outcome = "failed"]

\* lines 259-262: a firing that finds the flag set warns and returns
PollSkip(p) ==
  /\ poller.run[p].pc = "idle"
  /\ poller.isRunning
  /\ poller' = [poller EXCEPT !.ticks = CountUp(@),
                              !.run[p] = [IdleRun EXCEPT !.outcome = "skipped"]]
  /\ UNCHANGED <<mabVars, wa>>

\* lines 259-274: a firing that finds the flag clear sets it and calls both
\* sync functions, then waits for Promise.allSettled
PollStart(p) ==
  /\ poller.run[p].pc = "idle"
  /\ ~poller.isRunning
  /\ poller' = [poller EXCEPT !.ticks = CountUp(@),
                              !.isRunning = TRUE,
                              !.run[p] = [IdleRun EXCEPT !.pc = "sync",
                                                         !.synced = TRUE]]
  /\ UNCHANGED <<mabVars, wa>>

\* lines 271-277: allSettled resolves whatever the syncs did; syncCampaignList
\* is called (it catches its own errors, lines 190-249)
PollSync(p) ==
  /\ poller.run[p].pc = "sync"
  /\ poller' = [poller EXCEPT !.run[p].pc = "list"]
  /\ UNCHANGED <<mabVars, wa>>

\* lines 277-280: syncCampaignList resolves, redis.keys is called
PollList(p) ==
  /\ poller.run[p].pc = "list"
  /\ poller' = [poller EXCEPT !.run[p].pc = "keys"]
  /\ UNCHANGED <<mabVars, wa>>

\* PollKeys whose flag is cleared at the end of the try block, not in finally
PollKeys_NoFinally(p) ==
  /\ poller.run[p].pc = "keys"
  /\ \E ok \in BOOLEAN, n \in 0..1 :
       IF ok
         THEN poller' = [poller EXCEPT
                !.run[p].pc = IF n > 0 THEN "del" ELSE "store"]
         ELSE poller' = [poller EXCEPT !.failed = CountUp(@),
                                       !.run[p].pc = "idle",
                                       !.run[p].outcome = "failed"]
  /\ UNCHANGED <<mabVars, wa>>

\* lines 280-283: redis.keys answers with n dashboard keys, or rejects
PollKeys(p) ==
  /\ poller.run[p].pc = "keys"
  /\ \E ok \in BOOLEAN, n \in 0..1 :
       IF ok
         THEN poller' = [poller EXCEPT
                !.run[p].pc = IF n > 0 THEN "del" ELSE "store"]
         ELSE PollFailed(p)
  /\ UNCHANGED <<mabVars, wa>>

\* line 282: redis.del answers or rejects
PollDel(p) ==
  /\ poller.run[p].pc = "del"
  /\ \E ok \in BOOLEAN :
       IF ok THEN poller' = [poller EXCEPT !.run[p].pc = "store"]
             ELSE PollFailed(p)
  /\ UNCHANGED <<mabVars, wa>>

\* lines 296-301: setCached('metrics:last_poll') answers or rejects; either
\* way the finally block clears the flag and the call returns
PollStore(p) ==
  /\ poller.run[p].pc = "store"
  /\ \E ok \in BOOLEAN :
       IF ok
         THEN poller' = [poller EXCEPT !.isRunning = FALSE,
                                       !.lastPoll = poller.ticks,
                                       !.run[p].pc = "idle",
                                       !.run[p].outcome = "completed"]
         ELSE PollFailed(p)
  /\ UNCHANGED <<mabVars, wa>>

\* the steps the timers and the event loop take on their own
PollNext ==
  \E p \in Pollers :
    \/ PollSkip(p)
    \/ PollStart(p)
    \/ PollSync(p)
    \/ PollList(p)
    \/ PollKeys(p)
    \/ PollDel(p)
    \/ PollStore(p)

\* The scheduled workload: the poller's timers fire on their own; an
\* allocation cycle runs when a user calls triggerMAB.
NextSchedule ==
  \/ \E p \in Pollers : PollSkip(p)
  \/ \E p \in Pollers : PollStart(p)
  \/ \E p \in Pollers : PollSync(p)
  \/ \E p \in Pollers : PollList(p)
  \/ \E p \in Pollers : PollKeys(p)
  \/ \E p \in Pollers : PollDel(p)
  \/ \E p \in Pollers : PollStore(p)
  \/ \E b \in Budgets :
       AllIdle /\ hist.cycles < MaxSeqCycles /\ CycleStart(1, b)
  \/ CycleLoad(1)
  \/ CycleScore(1)
  \/ CycleDecide(1)
  \/ CyclePersist(1)
  \/ CycleUpsert(1)
  \/ CycleApply(1)
  \/ CycleReturn(1)

\* the timers keep firing and awaited calls answer (weak fairness on the
\* poller's steps); nothing obliges a user to call triggerMAB
SpecSchedule ==
  InitWith({{}, ArmKeys}) /\ [][NextSchedule]_vars /\ WF_vars(PollNext)

----------------------------------------------------------------------------
(* The WhatsApp conversation of one phone number, whatsapp-fsm.ts
   (part_002) with the two webhooks that call it (webhooks.ts). *)

WhatsAppStates ==
  {"INITIAL", "GREETING", "QUALIFYING", "QUALIFIED", "SCHEDULING",
   "CONFIRMED", "ENROLLED", "LOST"}

\* results analyzeIntent can return (score, intent, escalateToHuman)
Intents ==
  [score : {10, 60, 90}, intent : {"NEUTRAL", "READY_TO_ENROLL"},
   escalateToHuman : BOOLEAN]

\* part_002 lines 368-376: the intent used when analyzeIntent throws
FallbackIntent == [score |-> 50, intent |-> "NEUTRAL", escalateToHuman |-> TRUE]

\* part_002 lines 177-219
getNextState(currentState, intent) ==
  IF currentState = "ENROLLED" \/ currentState = "LOST" THEN currentState
  ELSE IF intent.escalateToHuman THEN currentState
  ELSE LET score == intent.score IN
    CASE currentState = "INITIAL" -> "GREETING"
      [] currentState = "GREETING" ->
           IF score >= 70 THEN "QUALIFYING"
           ELSE IF score < 20 THEN "LOST" ELSE "GREETING"
      [] currentState = "QUALIFYING" ->
           IF score >= 70 /\ intent.intent = "READY_TO_ENROLL" THEN "QUALIFIED"
           ELSE IF score >= 50 THEN "SCHEDULING"
           ELSE IF score < 20 THEN "LOST" ELSE "QUALIFYING"
      [] currentState = "QUALIFIED" -> "SCHEDULING"
      [] currentState = "SCHEDULING" ->
           IF intent.intent = "READY_TO_ENROLL" \/ score >= 80 THEN "CONFIRMED"
           ELSE IF score < 20 THEN "LOST" ELSE "SCHEDULING"
      [] currentState = "CONFIRMED" ->
           IF score >= 85 THEN "ENROLLED" ELSE "CONFIRMED"
      [] OTHER -> currentState

\* webhooks.ts lines 49-72: a Meta lead for the phone number is upserted and
\* sendWelcomeTemplate is queued with setImmediate
MetaLead(w) ==
  /\ wa.leads < MaxLeads
  /\ wa.welcome[w] = "idle"
  /\ wa' = [wa EXCEPT !.lead = TRUE, !.leads = @ + 1, !.welcome[w] = "send"]
  /\ UNCHANGED <<mabVars, poller>>

\* part_002 lines 463-471: the lead is found and the template is sent; a
\* failed send is caught and ends the call
WelcomeSend(w) ==
  /\ wa.welcome[w] = "send"
  /\ \E ok \in BOOLEAN :
       wa' = [wa EXCEPT !.welcome[w] = IF wa.lead /\ ok THEN "upsert" ELSE "idle"]
  /\ UNCHANGED <<mabVars, poller>>

\* part_002 lines 474-478: whatsAppConversation.upsert with state GREETING in
\* both its create and its update branch; a failure is caught
WelcomeUpsert(w) ==
  /\ wa.welcome[w] = "upsert"
  /\ \E ok \in BOOLEAN :
       wa' = [wa EXCEPT !.welcome[w] = "idle",
                        !.conversation = IF ok THEN <<"GREETING">> ELSE @]
  /\ UNCHANGED <<mabVars, poller>>

\* webhooks.ts lines 115-134: a message from the phone number arrives and
\* processWhatsAppMessage is queued with setImmediate
MessageArrives(m) ==
  /\ wa.messages < MaxMessages
  /\ wa.handler[m].pc = "idle"
  /\ \A k \in Handlers : k < m => wa.handler[k].pc # "idle"
  /\ wa' = [wa EXCEPT !.messages = @ + 1,
                      !.handler[m] = [IdleHandler EXCEPT !.pc = "find"]]
  /\ UNCHANGED <<mabVars, poller>>

\* part_002 lines 323-345: lead.findUnique with its conversation; no lead
\* ends the call, no conversation leads to the create
MessageFind(m) ==
  /\ wa.handler[m].pc = "find"
  /\ wa' = [wa EXCEPT !.handler[m] =
       IF ~wa.lead THEN IdleHandler
       ELSE IF wa.conversation = <<>> THEN [@ EXCEPT !.pc = "create"]
       ELSE [@ EXCEPT !.pc = "analyze",
                      !.currentState = wa.conversation[1]]]
  /\ UNCHANGED <<mabVars, poller>>

\* part_002 lines 335-343: whatsAppConversation.create with state INITIAL;
\* it rejects when a row for the lead exists by now (leadId is unique)
MessageCreate(m) ==
  /\ wa.handler[m].pc = "create"
  /\ IF wa.conversation = <<>>
       THEN wa' = [wa EXCEPT !.conversation = <<"INITIAL">>,
                             !.handler[m].pc = "analyze",
                             !.handler[m].currentState = "INITIAL"]
       ELSE wa' = [wa EXCEPT !.handler[m] = IdleHandler]
  /\ UNCHANGED <<mabVars, poller>>

\* part_002 lines 348-391: the history is read, analyzeIntent answers (or
\* throws: the fallback intent), getNextState, the reply is sent (a failure
\* is caught)
MessageAnalyze(m) ==
  /\ wa.handler[m].pc = "analyze"
  /\ \E intent \in Intents \cup {FallbackIntent} :
       wa' = [wa EXCEPT
         !.handler[m].nextState =
            getNextState(wa.handler[m].currentState, intent),
         !.handler[m].pc = "update"]
  /\ UNCHANGED <<mabVars, poller>>

\* part_002 lines 394-402: whatsAppConversation.update writes nextState
MessageUpdate(m) ==
  /\ wa.handler[m].pc = "update"
  /\ wa' = [wa EXCEPT !.conversation = <<wa.handler[m].nextState>>,
                      !.handler[m].pc = "lead"]
  /\ UNCHANGED <<mabVars, poller>>

\* part_002 lines 405-451: lead.update with the status that goes with
\* nextState; the log row and the handoff follow and the call returns
MessageLead(m) ==
  /\ wa.handler[m].pc = "lead"
  /\ LET nextState == wa.handler[m].nextState IN
     wa' = [wa EXCEPT
       !.leadStatus =
          IF nextState = "ENROLLED" THEN <<"ENROLLED">>
          ELSE IF nextState = "LOST" THEN <<"LOST">>
          ELSE IF nextState = "QUALIFIED" \/ nextState = "SCHEDULING"
            THEN <<"QUALIFYING">>
          ELSE @,
       !.handler[m] = IdleHandler]
  /\ UNCHANGED <<mabVars, poller>>

NextWhatsApp ==
  \/ \E w \in Welcomers : MetaLead(w)
  \/ \E w \in Welcomers : WelcomeSend(w)
  \/ \E w \in Welcomers : WelcomeUpsert(w)
  \/ \E m \in Handlers : MessageArrives(m)
  \/ \E m \in Handlers : MessageFind(m)
  \/ \E m \in Handlers : MessageCreate(m)
  \/ \E m \in Handlers : MessageAnalyze(m)
  \/ \E m \in Handlers : MessageUpdate(m)
  \/ \E m \in Handlers : MessageLead(m)

SpecWhatsApp == InitWith({{}}) /\ [][NextWhatsApp]_vars

----------------------------------------------------------------------------
(* Properties *)

InFlight == {"load", "score", "decide", "persist", "upsert", "apply"}

\* the cyclers whose decisions have been computed
Decided == {c \in Cyclers : cyc[c].decisions # <<>>}

RECURSIVE SumAllocated(_, _)
SumAllocated(decisions, i) ==
  IF i > Len(decisions) THEN 0
  ELSE decisions[i].allocatedBudgetPaisa + SumAllocated(decisions, i + 1)

RECURSIVE CommonDenominator(_, _)
CommonDenominator(scoredArms, i) ==
  IF i > Len(scoredArms) THEN 1
  ELSE LCM(scoredArms[i].score.d, CommonDenominator(scoredArms, i + 1))

\* the score of arm i as a whole number of 1/CommonDenominator
Weight(scoredArms, i) ==
  scoredArms[i].score.n
    * (CommonDenominator(scoredArms, 1) \div scoredArms[i].score.d)

RECURSIVE SumWeights(_, _)
SumWeights(scoredArms, i) ==
  IF i > Len(scoredArms) THEN 0
  ELSE Weight(scoredArms, i) + SumWeights(scoredArms, i + 1)

\* C1: when every one of the updateArmReward calls made so far has returned
\* (no cycle having run, no key having expired), each arm's stored pulls has
\* grown by the number of calls made on it and its totalReward by the sum of
\* their rewards.
C1_NoObservationLost ==
  (hist.cycles = 0 /\ \A u \in Updaters : upd[u].pc = "idle") =>
    \A k \in ArmKeys :
      LET arm == loadArm(k[1], k[2]) IN
      /\ arm.pulls = hist.base[k].pulls + hist.completed[k]
      /\ arm.totalReward = RAdd(hist.base[k].totalReward, hist.rewardSum[k])

\* C2: when a cycle has finished, every arm on which an updateArmReward
\* completed between the cycle's load and its persist of that arm is stored
\* with the learning fields that reward update wrote.
C2_CycleKeepsObservation ==
  \A c \in Cyclers :
    cyc[c].pc = "done" =>
      \A k \in cyc[c].landed :
        k \in DOMAIN store /\ Learn(store[k]) = hist.lastWrite[k]

\* C3: at most one cycle is between loading arms and finishing the apply step.
C3_OneCycleInFlight ==
  Cardinality({c \in Cyclers : cyc[c].pc \in InFlight}) <= 1

\* C4: every arm with pulls = 0 is scored Infinity and its decision has
\* reason UCB1.
C4_UnpulledArmScoredInfinity ==
  \A c \in Decided :
    \A i \in 1..Len(cyc[c].decisions) :
      cyc[c].scoredArms[i].arm.pulls = 0 =>
        /\ cyc[c].decisions[i].ucbScore = Infinity
        /\ cyc[c].decisions[i].reason = "UCB1"

\* C5: two arms scored 3.5 and 1.5 on a budget of 1,000,000: the first gets
\* strictly more than the second, and 70% of the budget up to rounding.
C5_ProportionalSplit ==
  \A c \in Decided :
    ( /\ Len(cyc[c].scoredArms) = 2
      /\ cyc[c].scoredArms[1].score = Q(7, 2)
      /\ cyc[c].scoredArms[2].score = Q(3, 2)
      /\ cyc[c].totalDailyBudgetPaisa = 1000000 ) =>
        /\ cyc[c].decisions[1].allocatedBudgetPaisa
             > cyc[c].decisions[2].allocatedBudgetPaisa
        /\ Abs(cyc[c].decisions[1].allocatedBudgetPaisa - 700000) <= 1

\* C6: every allocation is the larger of the floor and the arm's share
\* total * score / totalScore rounded to the nearest integer (halves up), each
\* arm on its own, and the step yields one decision per arm whatever they
\* sum to.  With a = allocated, w = the arm's weight, W = the sum of weights:
\* a > floor means a - 1/2 <= total * w / W < a + 1/2, and a = floor means
\* total * w / W < floor + 1/2.
C6_AllocationFormula ==
  \A c \in Cyclers :
    cyc[c].pc = "persist" =>
      /\ Len(cyc[c].decisions) = Len(cyc[c].scoredArms)
      /\ \A i \in 1..Len(cyc[c].decisions) :
           LET a == cyc[c].decisions[i].allocatedBudgetPaisa
               w == Weight(cyc[c].scoredArms, i)
               W == SumWeights(cyc[c].scoredArms, 1)
               total == cyc[c].totalDailyBudgetPaisa
           IN /\ a >= MIN_BUDGET_PAISA
              /\ a > MIN_BUDGET_PAISA =>
                   /\ (2 * a - 1) * W <= 2 * total * w
                   /\ 2 * total * w < (2 * a + 1) * W
              /\ a = MIN_BUDGET_PAISA =>
                   2 * total * w < (2 * MIN_BUDGET_PAISA + 1) * W

\* C6 witness: three decisions that sum to more than the budget, one at the
\* floor above its share and one above the floor.
C6_Witness ==
  \E c \in Cyclers :
    /\ cyc[c].pc = "persist"
    /\ Len(cyc[c].decisions) = 3
    /\ SumAllocated(cyc[c].decisions, 1) > cyc[c].totalDailyBudgetPaisa
    /\ \E i, j \in 1..3 :
         /\ cyc[c].decisions[i].allocatedBudgetPaisa = MIN_BUDGET_PAISA
         /\ 2 * cyc[c].totalDailyBudgetPaisa * Weight(cyc[c].scoredArms, i)
              < MIN_BUDGET_PAISA * SumWeights(cyc[c].scoredArms, 1)
         /\ cyc[c].decisions[j].allocatedBudgetPaisa > MIN_BUDGET_PAISA

\* C7: every decision allocates at least MIN_BUDGET_PAISA, and exactly
\* MIN_BUDGET_PAISA when the rounded share is below it (share < floor - 1/2).
C7_MinimumBudget ==
  \A c \in Decided :
    \A i \in 1..Len(cyc[c].decisions) :
      /\ cyc[c].decisions[i].allocatedBudgetPaisa >= MIN_BUDGET_PAISA
      /\ 2 * cyc[c].totalDailyBudgetPaisa * Weight(cyc[c].scoredArms, i)
           < (2 * MIN_BUDGET_PAISA - 1) * SumWeights(cyc[c].scoredArms, 1)
         => cyc[c].decisions[i].allocatedBudgetPaisa = MIN_BUDGET_PAISA

\* C7 witness: a decision at the floor for an arm whose share is below it.
C7_Witness ==
  \E c \in Decided :
    \E i \in 1..Len(cyc[c].decisions) :
      /\ 2 * cyc[c].totalDailyBudgetPaisa * Weight(cyc[c].scoredArms, i)
           < (2 * MIN_BUDGET_PAISA - 1) * SumWeights(cyc[c].scoredArms, 1)
      /\ cyc[c].decisions[i].allocatedBudgetPaisa = MIN_BUDGET_PAISA

\* fields by which a decision or the log record could state the allocated
\* total or the overrun
OverrunFields == {"totalAllocated", "allocatedTotal", "overrun", "overBudget"}

\* C8: when the decisions of a cycle sum to more than its total budget, a
\* decision or the cycle's log record states the overrun.
C8_OverrunSurfaced ==
  \A c \in Decided :
    SumAllocated(cyc[c].decisions, 1) > cyc[c].totalDailyBudgetPaisa =>
      \/ DOMAIN cyc[c].log[1] \cap OverrunFields # {}
      \/ \E i \in 1..Len(cyc[c].decisions) :
           DOMAIN cyc[c].decisions[i] \cap OverrunFields # {}

\* the last updateArmReward that returned
LastUpdate == hist.lastUpd[1]

\* C9 as claimed: the first updateArmReward(3.0) on an absent arm persists
\* pulls 1, avgReward 3, alpha 2, beta 1 and both accumulators 0.
C9_FirstRewardAsClaimed ==
  (hist.lastUpd # <<>> /\ LastUpdate.absent /\ LastUpdate.roasReward = RInt(3))
    => /\ LastUpdate.written.pulls = 1
       /\ LastUpdate.written.avgReward = RInt(3)
       /\ LastUpdate.written.alpha = 2
       /\ LastUpdate.written.beta = 1
       /\ LastUpdate.written.cusumPositive = Zero
       /\ LastUpdate.written.cusumNegative = Zero

\* C9 amended: ... persists pulls 1, avgReward 3, alpha 2, beta 1,
\* cusumPositive 2.5 and cusumNegative 0.
C9_FirstReward ==
  (hist.lastUpd # <<>> /\ LastUpdate.absent /\ LastUpdate.roasReward = RInt(3))
    => /\ LastUpdate.written.pulls = 1
       /\ LastUpdate.written.totalReward = RInt(3)
       /\ LastUpdate.written.avgReward = RInt(3)
       /\ LastUpdate.written.alpha = 2
       /\ LastUpdate.written.beta = 1
       /\ LastUpdate.written.cusumPositive = Q(5, 2)
       /\ LastUpdate.written.cusumNegative = Zero

\* C9 witness: the call has just returned and the store holds what it wrote.
C9_Witness ==
  /\ hist.lastUpd # <<>>
  /\ LastUpdate.absent
  /\ LastUpdate.roasReward = RInt(3)
  /\ LastUpdate.key \in DOMAIN store
  /\ store[LastUpdate.key] = LastUpdate.written

\* an arm as loadArm initialises it
IsFresh(arm) ==
  /\ arm.pulls = 0
  /\ arm.avgReward = Zero
  /\ arm.cusumPositive = Zero
  /\ arm.cusumNegative = Zero

\* C10 as claimed: an updateArmReward on an absent or fresh arm never reports
\* changeDetected.
C10_FirstRewardNeverDetects ==
  (hist.lastUpd # <<>> /\ IsFresh(LastUpdate.prior))
    => ~LastUpdate.changeDetected

\* C10 amended: an updateArmReward on an absent or fresh arm reports
\* changeDetected exactly when the reward is above 5.5, so never for a reward
\* from 0 to 5.5.
C10_FirstRewardDetectsAbove ==
  (hist.lastUpd # <<>> /\ IsFresh(LastUpdate.prior))
    => (LastUpdate.changeDetected <=> RGt(LastUpdate.roasReward, Q(11, 2)))

\* C10 witness: a reward of 5.5 on a fresh arm that a cycle had stored.
C10_Witness ==
  /\ hist.lastUpd # <<>>
  /\ IsFresh(LastUpdate.prior)
  /\ ~LastUpdate.absent
  /\ LastUpdate.roasReward = Q(11, 2)
  /\ ~LastUpdate.changeDetected

\* C11: every stored arm has pulls = 0, totalReward = 0 and avgReward = 0
\* together or none of them.
C11_ZeroTogether ==
  \A k \in DOMAIN store :
    /\ store[k].pulls = 0 <=> store[k].totalReward = Zero
    /\ store[k].totalReward = Zero <=> store[k].avgReward = Zero

\* whether the calls made so far are a series of rewards of this kind sent
\* to arm k, which had both accumulators 0 when the series began
InSeries(kind, k) ==
  /\ hist.lastUpd # <<>>
  /\ LastUpdate.key = k
  /\ SeriesOf(LastUpdate) = kind
  /\ hist.base[k].cusumPositive = Zero
  /\ hist.base[k].cusumNegative = Zero

\* C12: on an arm stored with avgReward 2.0 and both accumulators 0, ten
\* consecutive updateArmReward calls with reward 5.0 report changeDetected on
\* one of the ten at least, and a detecting call persists both accumulators
\* as 0.
C12_ShiftDetected ==
  \A k \in ArmKeys :
    (InSeries("SHIFT", k) /\ hist.base[k].avgReward = RInt(2)) =>
      /\ hist.completed[k] >= 10 => hist.firstDetected[k] \in 1..10
      /\ LastUpdate.changeDetected =>
           /\ LastUpdate.written.cusumPositive = Zero
           /\ LastUpdate.written.cusumNegative = Zero
           /\ store[k].cusumPositive = Zero
           /\ store[k].cusumNegative = Zero

\* C12 witness: the tenth call of the series has returned, and one of the ten
\* detected.
C12_Witness ==
  \E k \in ArmKeys :
    /\ InSeries("SHIFT", k)
    /\ hist.base[k].avgReward = RInt(2)
    /\ hist.completed[k] = 10
    /\ hist.firstDetected[k] \in 1..10

\* C13: from accumulators (0, 0), a series of up to 100 consecutive rewards
\* that each lie within 0.25 of the arm's average at the time never reports
\* changeDetected.
C13_StableNeverDetects ==
  \A k \in ArmKeys :
    ( /\ InSeries("BELOW", k)
      /\ hist.completed[k] <= 100
      /\ RLe(RSub(LastUpdate.prior.avgReward, LastUpdate.roasReward), Q(1, 4))
      /\ RLe(LastUpdate.roasReward, LastUpdate.prior.avgReward) )
    => hist.firstDetected[k] = 0

\* the accumulators a call computes from the arm it loaded, before any reset:
\* the loaded accumulator moved by the reward's distance from the loaded
\* average, less the drift allowance on the positive side
ComputedPositive(call) ==
  RAdd(call.prior.cusumPositive,
       RSub(RSub(call.roasReward, call.prior.avgReward), Q(1, 2)))

ComputedNegative(call) ==
  RAdd(call.prior.cusumNegative,
       RSub(call.prior.avgReward, call.roasReward))

CrossedThreshold(call) ==
  \/ RGt(ComputedPositive(call), RInt(5))
  \/ RGt(ComputedNegative(call), RInt(5))

\* C14: every stored arm has both accumulators from 0 to 5.0, and a call
\* that computes an accumulator above 5.0 persists both as exactly 0.
C14_AccumulatorsBounded ==
  /\ \A k \in DOMAIN store :
       /\ RLe(Zero, store[k].cusumPositive)
       /\ RLe(store[k].cusumPositive, RInt(5))
       /\ RLe(Zero, store[k].cusumNegative)
       /\ RLe(store[k].cusumNegative, RInt(5))
  /\ (hist.lastUpd # <<>> /\ CrossedThreshold(LastUpdate)) =>
       /\ LastUpdate.written.cusumPositive = Zero
       /\ LastUpdate.written.cusumNegative = Zero

\* C14 witness: a call computed an accumulator above 5.0 and the store holds
\* the record it wrote.
C14_Witness ==
  /\ hist.lastUpd # <<>>
  /\ CrossedThreshold(LastUpdate)
  /\ LastUpdate.key \in DOMAIN store
  /\ store[LastUpdate.key] = LastUpdate.written
  /\ store[LastUpdate.key].cusumPositive = Zero

\* whether the record a call wrote carries the loaded pulls, totalReward,
\* alpha and beta advanced by this one observation
CarriedForward(call) ==
  /\ call.written.pulls = call.prior.pulls + 1
  /\ call.written.totalReward = RAdd(call.prior.totalReward, call.roasReward)
  /\ call.written.avgReward.n * call.written.pulls * call.written.totalReward.d
       = call.written.totalReward.n * call.written.avgReward.d
  /\ call.written.alpha + call.written.beta
       = call.prior.alpha + call.prior.beta + 1
  /\ call.written.alpha \in {call.prior.alpha, call.prior.alpha + 1}

C16_BaselineIsLoadedAverage ==
  hist.lastUpd # <<>> =>
    /\ LastUpdate.changeDetected <=> CrossedThreshold(LastUpdate)
    /\ ~LastUpdate.changeDetected =>
         /\ LastUpdate.written.cusumPositive
              = RMax(Zero, ComputedPositive(LastUpdate))
         /\ LastUpdate.written.cusumNegative
              = RMax(Zero, ComputedNegative(LastUpdate))

\* C16 witness: a call on an arm with an average other than 0, whose reward
\* is off that average, has returned.
C16_Witness ==
  /\ hist.lastUpd # <<>>
  /\ LastUpdate.prior.pulls >= 1
  /\ LastUpdate.prior.avgReward # Zero
  /\ LastUpdate.roasReward # LastUpdate.prior.avgReward
  /\ LastUpdate.written.avgReward # LastUpdate.prior.avgReward
  /\ LastUpdate.written.cusumPositive # Zero

C18_PriorsNeverLowered ==
  /\ [](\A k \in DOMAIN store : store[k].alpha >= 1 /\ store[k].beta >= 1)
  /\ [][\A k \in DOMAIN store \cap DOMAIN store' :
          /\ store'[k].alpha >= store[k].alpha
          /\ store'[k].beta >= store[k].beta]_vars

\* C19: when the load or the save of one arm has failed in a cycle, the
\* cycle has a decision for every other arm and has persisted every other
\* arm's ucbScore.
C19_OnlyFailedArmSkipped ==
  \A c \in Cyclers :
    (cyc[c].pc = "raised" /\ cyc[c].failedAt # <<>>) =>
      \A k \in ArmKeys \ {cyc[c].failedAt[1]} :
        /\ k \in cyc[c].persisted
        /\ \E i \in 1..Len(cyc[c].decisions) :
             mabArmKey(cyc[c].decisions[i].campaignId,
                       cyc[c].decisions[i].adSetId) = k

\* C20: once a platform push has failed or a cycle has raised, every arm
\* record that a cycle persisted is still in the store as the cycle wrote
\* it, and when no cycle is running a new one can start.
C20_NoRollback ==
  (hist.raised \/ hist.pushFailed) =>
    /\ \A k \in ArmKeys :
         hist.cycleWrote[k] # <<>> =>
           k \in DOMAIN store /\ store[k] = hist.cycleWrote[k][1]
    /\ cyc[1].pc = "idle" => \A b \in Budgets : ENABLED CycleStart(1, b)

\* C20 witness: a cycle raised; the next cycle ran to its end with a failed
\* push, and the store holds every record it persisted.
C20_Witness ==
  /\ hist.raised
  /\ hist.pushFailed
  /\ hist.cycles = 2
  /\ cyc[1].pc = "done"
  /\ \A k \in ArmKeys :
       hist.cycleWrote[k] # <<>> /\ store[k] = hist.cycleWrote[k][1]

\* C21: an arm that has had no reward observation for 7 days is absent from
\* the store, whether or not allocation cycles ran in those days.
C21_UnobservedArmExpires ==
  \A k \in ArmKeys :
    now - hist.lastObserved[k] >= 7 => k \notin DOMAIN store

\* C27: every stored arm has alpha + beta = pulls + 2, under every
\* interleaving of reward updates and cycles, and after expiry and recreation.
C27_PriorsCountPulls ==
  \A k \in DOMAIN store : store[k].alpha + store[k].beta = store[k].pulls + 2

\* C27 witness: an arm that had 30 pulls expired and a reward update that
\* overlapped a cycle recreated it.
C27_Witness ==
  \E k \in DOMAIN store :
    /\ hist.base[k].pulls = 30
    /\ store[k].pulls = 1
    /\ now > ARM_TTL_DAYS
    /\ k \in UNION {cyc[c].landed : c \in Cyclers}

\* the keys of the arms a cycle works on
CycleKeys(c) ==
  {mabArmKey(cyc[c].arms[j].campaignId, cyc[c].arms[j].adSetId) :
     j \in 1..Len(cyc[c].arms)}

\* C23: in each cycle, no arm is scored before every arm is loaded, no arm is
\* persisted before every decision is computed, and no platform push is
\* issued before every arm's ucbScore is persisted.
C23_PhasesOrdered ==
  \A c \in Cyclers :
    /\ cyc[c].scoredArms # <<>> =>
         /\ Len(cyc[c].arms) = Len(ArmList)
         /\ Len(cyc[c].scoredArms) = Len(ArmList)
    /\ cyc[c].persisted # {} => Len(cyc[c].decisions) = Len(ArmList)
    /\ cyc[c].pc \in {"upsert", "apply", "done"} => cyc[c].persisted # {}
    /\ ( \/ cyc[c].pc = "apply"
         \/ cyc[c].pc = "done" /\ cyc[c].decisions # <<>> )
       => cyc[c].persisted = CycleKeys(c) /\ CycleKeys(c) = ArmKeys

\* C23 witness: one cycle is pushing its second decision while another is
\* still persisting.
C23_Witness ==
  \E c, d \in Cyclers :
    /\ cyc[c].pc = "apply"
    /\ cyc[c].i = 2
    /\ cyc[c].persisted = ArmKeys
    /\ cyc[d].pc = "persist"

\* C24: when a cycle that no reward update overlapped has completed, every
\* arm has the learning fields it had before the cycle (an absent arm
\* counting as the initial defaults); the cycle has stored a ucbScore.
C24_CycleKeepsLearning ==
  (cyc[1].pc = "done" /\ cyc[1].landed = {}) =>
    \A k \in ArmKeys :
      /\ k \in DOMAIN store
      /\ Learn(store[k]) = hist.lastWrite[k]
      /\ hist.completed[k] = 0 => Learn(store[k]) = hist.base[k]

\* C24 witness: a completed cycle after a reward on one arm, the other arm
\* absent before the cycle; the stored ucbScore is the one the cycle computed.
C24_Witness ==
  /\ cyc[1].pc = "done"
  /\ \E k, j \in ArmKeys :
       /\ hist.completed[k] = 1
       /\ hist.base[j].pulls = 0
       /\ hist.completed[j] = 0
       /\ store[j].pulls = 0
       /\ store[j].ucbScore \in ThompsonSamples

\* C25: in every decision, an arm with 0 < pulls < 30 has a Thompson sample
\* as its score and reason THOMPSON_SAMPLING; an arm with pulls >= 30 has
\* avgReward + 2 sqrt(ln(sum of the cycle's pulls) / pulls) as its score
\* (to 1/100) and reason UCB1; there is no other reason.
C25_ScoredByPulls ==
  \A c \in Decided :
    \A i \in 1..Len(cyc[c].decisions) :
      LET arm == cyc[c].arms[i]
          d == cyc[c].decisions[i]
          e == RSub(d.ucbScore, arm.avgReward)
      IN /\ d.reason \in {"THOMPSON_SAMPLING", "UCB1"}
         /\ (arm.pulls > 0 /\ arm.pulls < 30) =>
              d.reason = "THOMPSON_SAMPLING" /\ d.ucbScore \in ThompsonSamples
         /\ arm.pulls >= 30 =>
              /\ d.reason = "UCB1"
              /\ e.d \in {1, 2, 4, 5, 10, 20, 25, 50, 100}
              /\ LET h == e.n * (100 \div e.d)
                     t == (4 * LnE4(SumPulls(cyc[c].arms, 1))) \div arm.pulls
                 IN h * h <= t /\ t < (h + 1) * (h + 1)

\* C25 witness: a cycle over one arm with 30 pulls or more and one with 1 or
\* 2 pulls.
C25_Witness ==
  \E c \in Decided :
    /\ cyc[c].pc = "persist"
    /\ \E i, j \in 1..Len(cyc[c].decisions) :
         /\ cyc[c].arms[i].pulls >= 30
         /\ cyc[c].decisions[i].reason = "UCB1"
         /\ cyc[c].arms[j].pulls \in {1, 2}
         /\ cyc[c].decisions[j].reason = "THOMPSON_SAMPLING"

\* C28: in the decisions of one cycle, an arm whose score is at least
\* another arm's score is allocated at least as much budget as that arm.
C28_MonotoneInScore ==
  \A c \in Decided :
    \A i, j \in 1..Len(cyc[c].decisions) :
      RGe(cyc[c].decisions[i].ucbScore, cyc[c].decisions[j].ucbScore) =>
        cyc[c].decisions[i].allocatedBudgetPaisa
          >= cyc[c].decisions[j].allocatedBudgetPaisa

\* C28 witness: a cycle with a cold-start score and a larger warm score whose
\* rounded shares differ, the smaller one lifted to the floor.
C28_Witness ==
  \E c \in Decided :
    \E i, j \in 1..Len(cyc[c].decisions) :
      /\ RLt(cyc[c].decisions[j].ucbScore, RInt(1))
      /\ RGt(cyc[c].decisions[i].ucbScore, RInt(1))
      /\ cyc[c].decisions[j].allocatedBudgetPaisa = MIN_BUDGET_PAISA
      /\ cyc[c].decisions[i].allocatedBudgetPaisa > MIN_BUDGET_PAISA

\* C29: when a cycle has pushed every decision and no push failed, the budget
\* set on the platform for the campaign is the sum of the budgets the cycle
\* allocated to the campaign's arms.
C29_PlatformGetsSum ==
  (/\ cyc[1].pc = "done"
   /\ cyc[1].decisions # <<>>
   /\ ~hist.pushFailed)
    => /\ "x1" \in DOMAIN platformBudget
       /\ platformBudget["x1"] = SumAllocated(cyc[1].decisions, 1)

\* the pollMetrics invocations that are past the flag check and not returned
PollBodies == {p \in Pollers : poller.run[p].pc # "idle"}

\* C22: every tick of the metrics poller is eventually followed by the start
\* of a runFullMABCycle.
C22_TickStartsCycle ==
  \A n \in 1..MaxTicks : \A m \in 0..(MaxSeqCycles - 1) :
    (poller.ticks = n /\ hist.cycles = m) ~> (hist.cycles > m)

\* C30: isRunning is true exactly while one pollMetrics body is executing; at
\* most one executes; an invocation that was skipped synced nothing; with no
\* body executing the flag is false, whether the last poll completed or failed.
C30_FlagGuardsPoll ==
  /\ poller.isRunning <=> Cardinality(PollBodies) = 1
  /\ Cardinality(PollBodies) <= 1
  /\ \A p \in Pollers :
       poller.run[p].outcome = "skipped" =>
         ~poller.run[p].synced /\ poller.run[p].pc = "idle"
  /\ \A p \in Pollers :
       poller.run[p].outcome \in {"completed", "failed"} =>
         poller.run[p].pc = "idle"
  /\ PollBodies = {} => ~poller.isRunning

\* C30 witness: after a poll that failed, a later tick has started a poll,
\* and a tick during that poll was skipped.
C30_Witness ==
  /\ poller.failed > 0
  /\ \E p, q \in Pollers :
       /\ poller.run[p].pc = "store"
       /\ poller.run[q].outcome = "skipped"

\* the conversation row is in a terminal state
Terminal ==
  wa.conversation # <<>> /\ wa.conversation[1] \in {"ENROLLED", "LOST"}

\* C26: a conversation in ENROLLED or LOST keeps its state in every step of
\* the message handlers and of the welcome-template sends.
C26_TerminalStays == [][Terminal => wa'.conversation = wa.conversation]_vars

====
